---- MODULE Spec2Model ----
(***************************************************************************)
(* A model of extract_parts.py: the labelled-field extraction (a regular   *)
(* expression search over the text of one page) and main()'s loop that     *)
(* folds the pages of each PDF into page-range rows and writes parts.txt.  *)
(* Strings of the program are sequences of one-character strings, so that  *)
(* searching, trimming, splitting, formatting and joining are computed.    *)
(* Python's None is the empty tuple and a present value v is <<v>>.        *)
(***************************************************************************)
EXTENDS Integers, Sequences, FiniteSets, TLC

VARIABLES pc, pdfs, d, pages, job_value, last_part, last_asm, range_start,
          range_end, file_rows, rows, output, exc,
          fn, arg_text, arg_label, ret

vars == <<pc, pdfs, d, pages, job_value, last_part, last_asm, range_start,
          range_end, file_rows, rows, output, exc,
          fn, arg_text, arg_label, ret>>

mainVars == <<pc, pdfs, d, pages, job_value, last_part, last_asm, range_start,
              range_end, file_rows, rows, output, exc>>

callVars == <<fn, arg_text, arg_label, ret>>

\* ----------------------------------------------------------------- bounds
MaxTokens == 5
MaxPages == 3
MaxDocs == 2

\* ------------------------------------------------------- optional values
None == <<>>

Some(v) == <<v>>

Val(o) == o[1]

\* Python's `x or y` on an optional string: x when x is a non-empty string.
Truthy(o) == o # None /\ Val(o) # <<>>

\* ------------------------------------------------------------ characters
Uppers == <<"A","B","C","D","E","F","G","H","I","J","K","L","M",
            "N","O","P","Q","R","S","T","U","V","W","X","Y","Z">>

Lowers == <<"a","b","c","d","e","f","g","h","i","j","k","l","m",
            "n","o","p","q","r","s","t","u","v","w","x","y","z">>

DigitChars == <<"0","1","2","3","4","5","6","7","8","9">>

Range(s) == {s[i] : i \in DOMAIN s}

\* The characters \s and str.strip() treat as whitespace (those the model uses).
WhiteSpace == {" ", "\t", "\n", "\r", "\f"}

\* The characters the class [^\r\n] excludes.
LineBreaks == {"\n", "\r"}

\* \w: what \b tells apart from the rest.
IsWord(c) == c \in Range(Uppers) \cup Range(Lowers) \cup Range(DigitChars) \cup {"_"}

\* (?i): letters compare by their lower-case form.
Fold(c) == IF c \in Range(Uppers)
           THEN Lowers[CHOOSE i \in DOMAIN Uppers : Uppers[i] = c]
           ELSE c

\* str.strip(): drop leading and trailing whitespace.
Strip(s) ==
  LET keep == {i \in DOMAIN s : s[i] \notin WhiteSpace}
  IN  IF keep = {} THEN <<>>
      ELSE SubSeq(s, CHOOSE i \in keep : \A j \in keep : i <= j,
                     CHOOSE i \in keep : \A j \in keep : j <= i)

\* ------------------------------------------------- extract_first_value
\* \b at position i (between text[i-1] and text[i]).
WordBoundary(text, i) ==
  (i > 1 /\ IsWord(text[i-1])) # (i <= Len(text) /\ IsWord(text[i]))

\* The escaped label, matched literally and case-insensitively at i.
LabelAt(text, label, i) ==
  /\ i + Len(label) - 1 <= Len(text)
  /\ \A k \in DOMAIN label : Fold(text[i + k - 1]) = Fold(label[k])

\* \s* is greedy: the first position from j on that holds no whitespace.
SkipSpace(text, j) ==
  CHOOSE e \in j..(Len(text) + 1) :
    /\ \A k \in j..(e - 1) : text[k] \in WhiteSpace
    /\ e <= Len(text) => text[e] \notin WhiteSpace

\* The position of the colon of a match that starts at i, or 0.
ColonAt(text, label, i) ==
  IF WordBoundary(text, i) /\ LabelAt(text, label, i)
  THEN LET c == SkipSpace(text, i + Len(label))
       IN  IF c <= Len(text) /\ text[c] = ":" THEN c ELSE 0
  ELSE 0

\* Where group 1 starts for a colon at c: \s* gives back whitespace until
\* [^\r\n]+ finds a character, so the last position in c+1..e that holds one.
CaptureStarts(text, c) ==
  {s \in (c + 1)..SkipSpace(text, c + 1) :
     s <= Len(text) /\ text[s] \notin LineBreaks}

\* [^\r\n]+ is greedy: the last position of the line that holds s.
LineEnd(text, s) ==
  CHOOSE u \in s..Len(text) :
    /\ \A k \in s..u : text[k] \notin LineBreaks
    /\ u < Len(text) => text[u + 1] \in LineBreaks

MatchesAt(text, label, i) ==
  LET c == ColonAt(text, label, i)
  IN  c # 0 /\ CaptureStarts(text, c) # {}

\* match.group(1) of the match that starts at i.
Group1(text, label, i) ==
  LET c == ColonAt(text, label, i)
      starts == CaptureStarts(text, c)
      s == CHOOSE x \in starts : \A y \in starts : y <= x
  IN  SubSeq(text, s, LineEnd(text, s))

\* re.search: the leftmost position with a match; then strip, and `or None`.
extract_first_value(text, label) ==
  LET hits == {i \in 1..(Len(text) + 1) : MatchesAt(text, label, i)}
  IN  IF hits = {} THEN None
      ELSE LET i == CHOOSE x \in hits : \A y \in hits : x <= y
               value == Strip(Group1(text, label, i))
           IN  IF value = <<>> THEN None ELSE Some(value)

PartLabel == <<"P","a","r","t">>

AsmLabel == <<"A","s","m">>

JobLabel == <<"J","o","b">>

\* value.split("/", 1)[0]: the text before the first slash.
BeforeSlash(value) ==
  LET at == {i \in DOMAIN value : value[i] = "/"}
  IN  IF at = {} THEN value
      ELSE SubSeq(value, 1, (CHOOSE i \in at : \A j \in at : i <= j) - 1)

\* Faulty variant of extract_first_part: the first segment is not stripped.
extract_first_part_no_strip(text) ==
  LET v == extract_first_value(text, PartLabel)
  IN  IF ~Truthy(v) THEN None
      ELSE LET value == BeforeSlash(Val(v))
           IN  IF value = <<>> THEN None ELSE Some(value)

extract_first_part(text) ==
  LET v == extract_first_value(text, PartLabel)
  IN  IF ~Truthy(v) THEN None
      ELSE LET value == IF "/" \in Range(Val(v))
                        THEN Strip(BeforeSlash(Val(v)))
                        ELSE Val(v)
           IN  IF value = <<>> THEN None ELSE Some(value)

extract_first_asm(text) == extract_first_value(text, AsmLabel)

extract_first_job(text) == extract_first_value(text, JobLabel)

\* ------------------------------------------------------------ formatting
\* str(n) of a page number.
RECURSIVE Digits(_)
Digits(n) == IF n < 10 THEN <<DigitChars[n + 1]>>
             ELSE Digits(n \div 10) \o <<DigitChars[(n % 10) + 1]>>

\* Faulty variant of flush_range: the page label is always a range.
flush_range_always_range ==
  IF last_part = None \/ range_start = None \/ range_end = None
  THEN file_rows
  ELSE Append(file_rows,
              <<"P","a","g","e"," ">> \o Digits(Val(range_start))
                \o <<"-">> \o Digits(Val(range_end))
                \o <<" "," ","A","s","m",":"," ">>
                \o (IF Truthy(last_asm) THEN Val(last_asm) ELSE <<>>)
                \o <<" "," ","P","a","r","t",":"," ">> \o Val(last_part))

\* flush_range(): file_rows after the call, from the enclosing loop's variables.
flush_range ==
  IF last_part = None \/ range_start = None \/ range_end = None
  THEN file_rows
  ELSE LET page_label ==
             IF range_start = range_end
             THEN <<"P","a","g","e"," ">> \o Digits(Val(range_start))
             ELSE <<"P","a","g","e"," ">> \o Digits(Val(range_start))
                    \o <<"-">> \o Digits(Val(range_end))
       IN  Append(file_rows,
                  page_label \o <<" "," ","A","s","m",":"," ">>
                    \o (IF Truthy(last_asm) THEN Val(last_asm) ELSE <<>>)
                    \o <<" "," ","P","a","r","t",":"," ">> \o Val(last_part))

\* "\n".join(rows)
RECURSIVE Join(_)
Join(rs) == IF rs = <<>> THEN <<>>
            ELSE IF Len(rs) = 1 THEN rs[1]
            ELSE rs[1] \o <<"\n">> \o Join(Tail(rs))

\* str.rstrip(): drop trailing whitespace.
RStrip(s) ==
  LET keep == {i \in DOMAIN s : s[i] \notin WhiteSpace}
  IN  IF keep = {} THEN <<>>
      ELSE SubSeq(s, 1, CHOOSE i \in keep : \A j \in keep : j <= i)

\* ------------------------------------------------------------- the input
\* What page.extract_text() returns for a page: None, or one of these texts.
PageTexts == {
  <<>>,
  <<"J","o","b",":"," ","5","0","0","\n","A","s","m",":"," ","A","1","\n",
    "P","a","r","t",":"," ","P","1">>,
  <<"P","a","r","t",":"," ","P","1","\n","A","s","m",":"," ","A","1">>,
  <<"P","a","r","t",":"," ","P","2","\n","A","s","m",":"," ","A","1">>,
  <<"J","o","b",":"," ","1","0","0","1">>,
  <<"p","a","r","t",":"," ","P","1">> }

Provided == {None} \cup {Some(t) : t \in PageTexts}

\* pdf.name of the i-th PDF of the sorted list.
Name(i) == <<Lowers[i]>> \o <<".","p","d","f">>

RECURSIVE Total(_)
Total(ns) == IF ns = <<>> THEN 0 ELSE Head(ns) + Total(Tail(ns))

\* The page counts of the PDFs found, in sorted order.
PageCounts ==
  {ns \in UNION {[1..k -> 0..MaxPages] : k \in 0..MaxDocs} : Total(ns) <= MaxPages}

\* pdfs: each PDF with its name and its number of pages.
PdfLists ==
  {[i \in 1..Len(ns) |-> [name |-> Name(i), npages |-> ns[i]]] : ns \in PageCounts}

\* ------------------------------------------------------------------ main
Init ==
  /\ pc = "start" /\ pdfs \in PdfLists /\ d = 0 /\ pages = <<>>
  /\ job_value = None /\ last_part = None /\ last_asm = None
  /\ range_start = None /\ range_end = None
  /\ file_rows = <<>> /\ rows = <<>> /\ output = None /\ exc = None
  /\ fn = "none" /\ arg_text = <<>> /\ arg_label = <<>> /\ ret = None

\* `if not pdfs: return 0`, else on to the first PDF with rows = [].
Start ==
  /\ pc = "start"
  /\ IF pdfs = <<>> THEN pc' = "done" /\ d' = d
     ELSE pc' = "open" /\ d' = 1
  /\ UNCHANGED <<pdfs, pages, job_value, last_part, last_asm, range_start,
                 range_end, file_rows, rows, output, exc, callVars>>

\* Faulty variant of on_error: the exception is swallowed and the loop goes on.
on_error_swallowed == "loop"

\* An exception inside main() is caught nowhere: it leaves the loops and main.
on_error == "crashed"

\* The head of `for pdf in pdfs`: the reader and the per-file variables.
OpenPdf ==
  /\ pc = "open"
  /\ pages' = <<>> /\ file_rows' = <<>>
  /\ job_value' = None /\ last_part' = None /\ last_asm' = None
  /\ range_start' = None /\ range_end' = None
  /\ pc' = "loop"
  /\ UNCHANGED <<pdfs, d, rows, output, exc, callVars>>

\* PdfReader(str(pdf)) raises.
OpenFails ==
  /\ pc = "open"
  /\ exc' = Some(d)
  /\ pc' = on_error
  /\ UNCHANGED <<pdfs, d, pages, job_value, last_part, last_asm, range_start,
                 range_end, file_rows, rows, output, callVars>>

\* Faulty variant of next_job: a later Job value replaces the first.
next_job_last_wins(text) ==
  LET j == extract_first_job(text) IN IF Truthy(j) THEN j ELSE job_value

\* Faulty variant of next_job: the Job value of a page without a Part value
\* is not looked at.
next_job_needs_part(text) ==
  IF job_value = None /\ Truthy(extract_first_part(text))
  THEN LET j == extract_first_job(text) IN IF Truthy(j) THEN j ELSE None
  ELSE job_value

\* `if job_value is None: job_value = extract_first_job(text) or None`
next_job(text) ==
  IF job_value = None
  THEN LET j == extract_first_job(text) IN IF Truthy(j) THEN j ELSE None
  ELSE job_value

\* Faulty variant of skip_page: a page without a Part value closes the run.
skip_page_flushes ==
  /\ file_rows' = flush_range
  /\ last_part' = None /\ last_asm' = None
  /\ range_start' = None /\ range_end' = None

\* `if not part: continue`
skip_page ==
  UNCHANGED <<last_part, last_asm, range_start, range_end, file_rows>>

\* Faulty variant of same_run: the Asm value is not compared.
same_run_part_only(part, asm) ==
  Some(part) = last_part /\ range_end # None

\* `part == last_part and asm == last_asm and range_end is not None`
same_run(part, asm) ==
  Some(part) = last_part /\ Some(asm) = last_asm /\ range_end # None

\* Faulty variant of fold_page: a new run keeps the old range_start.
fold_page_stale_start(idx, part, asm) ==
  IF last_part = None
  THEN /\ last_part' = Some(part) /\ last_asm' = Some(asm)
       /\ range_start' = Some(idx) /\ range_end' = Some(idx)
       /\ file_rows' = file_rows
  ELSE IF same_run(part, asm)
  THEN /\ range_end' = Some(idx)
       /\ UNCHANGED <<last_part, last_asm, range_start, file_rows>>
  ELSE /\ file_rows' = flush_range
       /\ last_part' = Some(part) /\ last_asm' = Some(asm)
       /\ range_start' = range_start /\ range_end' = Some(idx)

\* The rest of the loop body, for a page with a Part value.
fold_page(idx, part, asm) ==
  IF last_part = None
  THEN /\ last_part' = Some(part) /\ last_asm' = Some(asm)
       /\ range_start' = Some(idx) /\ range_end' = Some(idx)
       /\ file_rows' = file_rows
  ELSE IF same_run(part, asm)
  THEN /\ range_end' = Some(idx)
       /\ UNCHANGED <<last_part, last_asm, range_start, file_rows>>
  ELSE /\ file_rows' = flush_range
       /\ last_part' = Some(part) /\ last_asm' = Some(asm)
       /\ range_start' = Some(idx) /\ range_end' = Some(idx)

\* One turn of `for idx, page in enumerate(reader.pages, start=1)`.
ProcessPage ==
  /\ pc = "loop"
  /\ Len(pages) < pdfs[d].npages
  /\ \E got \in Provided :
       LET text == IF Truthy(got) THEN Val(got) ELSE <<>>
           idx == Len(pages) + 1
           part == extract_first_part(text)
           a == extract_first_asm(text)
           asm == IF Truthy(a) THEN Val(a) ELSE <<>>
       IN  /\ pages' = Append(pages, text)
           /\ job_value' = next_job(text)
           /\ IF ~Truthy(part) THEN skip_page ELSE fold_page(idx, Val(part), asm)
  /\ UNCHANGED <<pc, pdfs, d, rows, output, exc, callVars>>

\* page.extract_text() raises.
ProviderFails ==
  /\ pc = "loop"
  /\ Len(pages) < pdfs[d].npages
  /\ exc' = Some(d)
  /\ pc' = on_error
  /\ UNCHANGED <<pdfs, d, pages, job_value, last_part, last_asm, range_start,
                 range_end, file_rows, rows, output, callVars>>

\* Faulty variant of append_rows: the Job line does not wait for file_rows.
append_rows_header_always(fr, name) ==
  rows
    \o (IF Truthy(job_value)
        THEN << <<"J","o","b",":"," ">> \o Val(job_value) >> ELSE <<>>)
    \o (IF fr # <<>>
        THEN << <<"F","i","l","e",":"," ">> \o name >> \o fr \o << <<>> >>
        ELSE <<>>)

\* `if file_rows:` and the four lines under it: rows after them.
append_rows(fr, name) ==
  IF fr # <<>>
  THEN rows
         \o (IF Truthy(job_value)
             THEN << <<"J","o","b",":"," ">> \o Val(job_value) >> ELSE <<>>)
         \o << <<"F","i","l","e",":"," ">> \o name >>
         \o fr
         \o << <<>> >>
  ELSE rows

\* After the last page: the final flush_range() and the rows of the file.
EndPdf ==
  /\ pc = "loop"
  /\ Len(pages) = pdfs[d].npages
  /\ file_rows' = flush_range
  /\ rows' = append_rows(file_rows', pdfs[d].name)
  /\ d' = d + 1
  /\ pc' = IF d = Len(pdfs) THEN "write" ELSE "open"
  /\ UNCHANGED <<pdfs, pages, job_value, last_part, last_asm, range_start,
                 range_end, output, exc, callVars>>

\* output_text = "\n".join(rows).rstrip() + "\n"
output_text == RStrip(Join(rows)) \o <<"\n">>

\* `if not rows: return 0`, else output_path.write_text(output_text).
WriteOutput ==
  /\ pc = "write"
  /\ output' = IF rows = <<>> THEN output ELSE Some(output_text)
  /\ pc' = "done"
  /\ UNCHANGED <<pdfs, d, pages, job_value, last_part, last_asm, range_start,
                 range_end, file_rows, rows, exc, callVars>>

Next ==
  \/ Start
  \/ OpenPdf
  \/ OpenFails
  \/ ProcessPage
  \/ ProviderFails
  \/ EndPdf
  \/ WriteOutput

Spec == Init /\ [][Next]_vars

\* ------------------------------------------------- the claims' vocabulary
\* The page texts of the examples.
PageJobAsmP1 == <<"J","o","b",":"," ","5","0","0","\n","A","s","m",":"," ","A","1","\n","P","a","r","t",":"," ","P","1">>

PageP1A1 == <<"P","a","r","t",":"," ","P","1","\n","A","s","m",":"," ","A","1">>

PageP2A1 == <<"P","a","r","t",":"," ","P","2","\n","A","s","m",":"," ","A","1">>

PageJobOnly == <<"J","o","b",":"," ","1","0","0","1">>

PageP1NoAsm == <<"p","a","r","t",":"," ","P","1">>

\* The extraction functions' values on the page texts, tabulated.
Extracted ==
  [t \in PageTexts |-> [job |-> extract_first_job(t),
                        part |-> extract_first_part(t),
                        asm |-> extract_first_asm(t)]]

\* The indices of the qualifying pages: those with a Part value.
Qualifying(ps) == {i \in DOMAIN ps : Extracted[ps[i]].part # None}

\* The (part, asm) pair of a qualifying page, an absent Asm being "".
PairOf(ps, i) ==
  << Val(Extracted[ps[i]].part),
     IF Extracted[ps[i]].asm = None THEN <<>> ELSE Val(Extracted[ps[i]].asm) >>

\* A run starts at a qualifying page that has no qualifying page before it
\* or whose nearest qualifying predecessor has another pair.
RunStarts(ps) ==
  {i \in Qualifying(ps) :
     \A j \in Qualifying(ps) :
       (j < i /\ \A k \in Qualifying(ps) : ~(j < k /\ k < i))
         => PairOf(ps, j) # PairOf(ps, i)}

\* The last qualifying page reached from i through equal pairs only.
RunEnd(ps, i) ==
  CHOOSE e \in Qualifying(ps) :
    /\ i <= e
    /\ \A k \in Qualifying(ps) : (i <= k /\ k <= e) => PairOf(ps, k) = PairOf(ps, i)
    /\ \A k \in Qualifying(ps) :
         (e < k /\ \A m \in Qualifying(ps) : ~(e < m /\ m < k))
           => PairOf(ps, k) # PairOf(ps, i)

\* The maximal runs of ps as records, in document order.
RefRecords(ps) ==
  [n \in 1..Cardinality(RunStarts(ps)) |->
     LET s == CHOOSE i \in RunStarts(ps) :
                Cardinality({j \in RunStarts(ps) : j < i}) = n - 1
     IN  [start |-> s, end |-> RunEnd(ps, s),
          part |-> PairOf(ps, s)[1], asm |-> PairOf(ps, s)[2]]]

\* The report line of a record: the single-page and the multi-page format.
RefLine(r) ==
  (IF r.start = r.end
   THEN <<"P","a","g","e"," ">> \o Digits(r.start)
   ELSE <<"P","a","g","e"," ">> \o Digits(r.start) \o <<"-">> \o Digits(r.end))
    \o <<" "," ","A","s","m",":"," ">> \o r.asm
    \o <<" "," ","P","a","r","t",":"," ">> \o r.part

RefLines(ps) == [n \in DOMAIN RefRecords(ps) |-> RefLine(RefRecords(ps)[n])]

\* The Job value of the lowest-indexed page that has one.
RefFirstJob(ps) ==
  LET has == {i \in DOMAIN ps : Extracted[ps[i]].job # None}
  IN  IF has = {} THEN None
      ELSE Extracted[ps[CHOOSE i \in has : \A j \in has : i <= j]].job

\* The last page of the current PDF has been folded and the final flush done.
DocFinished == pc \in {"open", "write", "done"} /\ d >= 2

\* ------------------------------------------------------------------ C1
\* C1: after the last page and the final flush, the rows of the document are
\* the maximal runs of consecutive qualifying pages with equal (part, asm), one
\* per run in document order, from the run's first to its last qualifying
\* page; adjacent records differ in part or asm; (X,Y),(X,Y),(X,Y) gives
\* {1,3,X,Y} and (X,Y),(X,Y),(Z,Y) gives {1,2,X,Y} then {3,3,Z,Y}.
C1_RowsAreMaximalRuns ==
  DocFinished =>
    /\ file_rows = RefLines(pages)
    /\ \A n \in 1..(Len(file_rows) - 1) :
         <<RefRecords(pages)[n].part, RefRecords(pages)[n].asm>>
           # <<RefRecords(pages)[n + 1].part, RefRecords(pages)[n + 1].asm>>
    /\ pages = <<PageP1A1, PageP1A1, PageP1A1>>
         => file_rows = << <<"P","a","g","e"," ","1","-","3"," "," ","A","s","m",":"," ","A","1"," "," ","P","a","r","t",":"," ","P","1">> >>
    /\ pages = <<PageP1A1, PageP1A1, PageP2A1>>
         => file_rows = << <<"P","a","g","e"," ","1","-","2"," "," ","A","s","m",":"," ","A","1"," "," ","P","a","r","t",":"," ","P","1">>,
                           <<"P","a","g","e"," ","3"," "," ","A","s","m",":"," ","A","1"," "," ","P","a","r","t",":"," ","P","2">> >>

\* A document of two runs was finished.
C1_Witness ==
  /\ DocFinished
  /\ pages = <<PageP1A1, PageP1A1, PageP2A1>>
  /\ Len(file_rows) = 2

\* ------------------------------------------------------------------ C2
\* C2: a page without a Part value leaves the open run and the rows as they
\* are, so a run goes on across it: (X,Y),(no Part),(X,Y) gives {1,3,X,Y}.
C2_SkippedPageKeepsRun ==
  /\ [][(pc = "loop" /\ Len(pages') = Len(pages) + 1
           /\ Extracted[pages'[Len(pages')]].part = None)
          => UNCHANGED <<last_part, last_asm, range_start, range_end, file_rows>>]_vars
  /\ []((DocFinished /\ pages = <<PageP1A1, <<>>, PageP1A1>>)
          => file_rows = << <<"P","a","g","e"," ","1","-","3"," "," ","A","s","m",":"," ","A","1"," "," ","P","a","r","t",":"," ","P","1">> >>)

\* A run that was open before a page without a Part value went on after it.
C2_Witness ==
  /\ pc = "loop"
  /\ Len(pages) = 3
  /\ Qualifying(pages) = {1, 3}
  /\ range_start = Some(1) /\ range_end = Some(3)

\* ------------------------------------------------------------------ C3
\* C3: within one document the job is absent until the first page, with or
\* without a Part value, that has a Job value, takes that value there and is
\* never changed by a later page; at the end it is the Job value of the
\* lowest-indexed page that has one, or absent.
C3_FirstJobWins ==
  /\ [](job_value = RefFirstJob(pages))
  /\ [][(pc = "loop" /\ pc' = "loop" /\ job_value # None)
          => job_value' = job_value]_vars

\* No Job on page 1, Job 1001 on page 2 (no Part), Job 500 on page 3.
C3_Witness ==
  /\ pages = << <<>>, PageJobOnly, PageJobAsmP1 >>
  /\ job_value = Some(<<"1","0","0","1">>)

\* ------------------------------------------------------------------ C4
\* C4 as stated: a document no page of which has a Part value ends with no
\* rows and an absent job.
C4_NoPartNoJob ==
  (DocFinished /\ Qualifying(pages) = {})
    => (file_rows = <<>> /\ job_value = None)

\* C4 amended: a document no page of which has a Part value ends with no rows;
\* its job is absent exactly when no page has a Job value either, and else is
\* the first page's Job value that has one.
C4_NoPartNoRows ==
  (DocFinished /\ Qualifying(pages) = {})
    => /\ file_rows = <<>>
       /\ job_value = None <=> \A i \in DOMAIN pages : Extracted[pages[i]].job = None
       /\ job_value = RefFirstJob(pages)

\* A finished document without a Part value whose second page has a Job value.
C4_Witness ==
  /\ DocFinished
  /\ pages = << <<>>, PageJobOnly >>
  /\ file_rows = <<>>
  /\ job_value = Some(<<"1","0","0","1">>)

\* ------------------------------------------------------------------ C5
\* The step that ends a document and adds its report to rows.
EndsDocument == pc = "loop" /\ pc' \in {"open", "write"}

JobLine == <<"J","o","b",":"," ">> \o Val(job_value)

\* C5 as stated: the report of a document is the line `Job: {job}` exactly
\* when the job is present, then one line per record, and no other line.
C5_HeaderThenRecords ==
  [][EndsDocument
       => rows' = rows \o (IF job_value # None THEN <<JobLine>> ELSE <<>>)
                       \o RefLines(pages)]_vars

\* C5 amended: the report of a document with at least one record is the line
\* `Job: {job}` exactly when the job is present, then the line `File: {name}`,
\* then one line per record in document order, then an empty line (the last
\* one of the output is dropped); a document without records adds nothing.
C5_HeaderFileRecords ==
  /\ [][EndsDocument
          => rows' = IF RefRecords(pages) = <<>> THEN rows
                     ELSE rows \o (IF job_value # None THEN <<JobLine>> ELSE <<>>)
                               \o << <<"F","i","l","e",":"," ">> \o pdfs[d].name >>
                               \o RefLines(pages)
                               \o << <<>> >>]_vars
  /\ []((pc = "done" /\ Len(pdfs) = 1
           /\ pages = <<PageJobAsmP1, PageP1A1, PageP2A1>>)
          => output = Some(<<"J","o","b",":"," ","5","0","0","\n","F","i","l","e",":"," ","a",".","p","d","f","\n","P","a","g","e"," ","1","-","2"," "," ","A","s","m",":"," ","A","1"," "," ","P","a","r","t",":"," ","P","1","\n","P","a","g","e"," ","3"," "," ","A","s","m",":"," ","A","1"," "," ","P","a","r","t",":"," ","P","2","\n">>))

\* The three pages of the example were reported and written.
C5_Witness ==
  /\ pc = "done"
  /\ pages = <<PageJobAsmP1, PageP1A1, PageP2A1>>
  /\ Len(rows) = 5
  /\ output # None

\* ------------------------------------------------------------------ C6
\* C6: a finalized record is rendered `Page {start}  Asm: {asm}  Part: {part}`
\* when start = end and `Page {start}-{end}  Asm: {asm}  Part: {part}` when
\* start < end, with {asm} empty when the run's pages had no Asm value.
C6_RecordLineFormat ==
  [][Len(file_rows') > Len(file_rows)
       => /\ Val(range_start) <= Val(range_end)
          /\ file_rows' =
               Append(file_rows,
                      RefLine([start |-> Val(range_start), end |-> Val(range_end),
                               part |-> Val(last_part), asm |-> Val(last_asm)]))]_vars

\* A two-page run without an Asm value and a one-page run were rendered.
C6_Witness ==
  /\ Len(file_rows) = 2
  /\ file_rows[1] = <<"P","a","g","e"," ","1","-","2"," "," ","A","s","m",":"," "," "," ","P","a","r","t",":"," ","P","1">>
  /\ file_rows[2] = <<"P","a","g","e"," ","3"," "," ","A","s","m",":"," ","A","1"," "," ","P","a","r","t",":"," ","P","2">>

\* ------------------------------------------------------------------ C9
\* C9: when the page-text provider raises, the document's processing stops
\* there for good, and nothing is ever written to the output: the output
\* holds report lines only if every page was read without failure.
C9_NoReportAfterFailure ==
  /\ exc # None => (pc = "crashed" /\ output = None)
  /\ output # None => exc = None

\* The provider failed on the second PDF after the first gave rows.
C9_Witness ==
  /\ exc = Some(2)
  /\ pc = "crashed"
  /\ rows # <<>>
  /\ Len(pages) >= 1
  /\ output = None

\* ----------------------------------------------------------------- C10
\* C10: after any prefix of the pages, an open run has
\* 1 <= start_page <= end_page <= pages processed, both indices of qualifying
\* pages, and every qualifying page in between has the run's part and asm.
C10_OpenRunInvariant ==
  last_part # None =>
    /\ last_asm # None /\ range_start # None /\ range_end # None
    /\ 1 <= Val(range_start)
    /\ Val(range_start) <= Val(range_end)
    /\ Val(range_end) <= Len(pages)
    /\ {Val(range_start), Val(range_end)} \subseteq Qualifying(pages)
    /\ \A i \in Qualifying(pages) :
         (Val(range_start) <= i /\ i <= Val(range_end))
           => PairOf(pages, i) = <<Val(last_part), Val(last_asm)>>

\* A second run is open over pages 2 and 3 while the loop is running.
C10_Witness ==
  /\ pc = "loop"
  /\ Len(file_rows) = 1
  /\ range_start = Some(2) /\ range_end = Some(3)

\* ------------------------------------------- the extraction functions alone
\* Page texts are built from these pieces: the label, the colon, a space, a
\* line feed, a word character and the slash.
Tokens == { <<"P","a","r","t">>, <<":">>, <<" ">>, <<"\n">>, <<"x">>, <<"/">> }

RECURSIVE Flatten(_)
Flatten(ts) == IF ts = <<>> THEN <<>> ELSE Head(ts) \o Flatten(Tail(ts))

Texts == {Flatten(ts) : ts \in UNION {[1..k -> Tokens] : k \in 0..MaxTokens}}

\* The labels asked for: the text's spelling, another letter case, one letter.
Labels == {PartLabel, <<"p","A","R","T">>, <<"X">>}

Idle ==
  /\ pc = "idle" /\ pdfs = <<>> /\ d = 0 /\ pages = <<>>
  /\ job_value = None /\ last_part = None /\ last_asm = None
  /\ range_start = None /\ range_end = None
  /\ file_rows = <<>> /\ rows = <<>> /\ output = None /\ exc = None

ExtractInit ==
  /\ Idle
  /\ fn = "none" /\ arg_text \in Texts /\ arg_label = <<>> /\ ret = None

CallValue ==
  /\ fn = "none"
  /\ \E l \in Labels :
       /\ arg_label' = l
       /\ ret' = extract_first_value(arg_text, l)
  /\ fn' = "extract_first_value"
  /\ UNCHANGED <<arg_text, mainVars>>

CallPart ==
  /\ fn = "none"
  /\ ret' = extract_first_part(arg_text)
  /\ fn' = "extract_first_part"
  /\ UNCHANGED <<arg_text, arg_label, mainVars>>

ExtractNext == CallValue \/ CallPart

SpecExtract == ExtractInit /\ [][ExtractNext]_vars

\* ------------------------------------------------------------------ C7
\* An occurrence of the label token: the label (any letter case) at a word
\* boundary, then optional whitespace, then a colon. Gives the colon's place.
RefOccurrences(text, label) ==
  {i \in 1..(Len(text) + 1) : ColonAt(text, label, i) # 0}

\* The rest of the colon's own line: up to the next line terminator.
RECURSIVE RefRestOfLine(_, _)
RefRestOfLine(text, j) ==
  IF j > Len(text) \/ text[j] \in LineBreaks THEN <<>>
  ELSE <<text[j]>> \o RefRestOfLine(text, j + 1)

RECURSIVE RefTrim(_)
RefTrim(s) ==
  IF s = <<>> THEN s
  ELSE IF Head(s) \in WhiteSpace THEN RefTrim(Tail(s))
  ELSE IF s[Len(s)] \in WhiteSpace THEN RefTrim(SubSeq(s, 1, Len(s) - 1))
  ELSE s

RefExtract(text, label) ==
  LET occ == RefOccurrences(text, label)
  IN  IF occ = {} THEN None
      ELSE LET i == CHOOSE x \in occ : \A y \in occ : x <= y
               rest == RefTrim(RefRestOfLine(text, ColonAt(text, label, i) + 1))
           IN  IF rest = <<>> THEN None ELSE Some(rest)

\* C7: extract(text, label) is the trimmed remainder of the line of the first
\* occurrence of "label, optional whitespace, colon", absent when there is no
\* occurrence or the remainder trims to empty; never text of a later line.
C7_ExtractIsRestOfFirstLine ==
  fn = "extract_first_value" => ret = RefExtract(arg_text, arg_label)

\* ------------------------------------------------------------------ C8
\* The longest prefix of v that holds no slash.
RefBeforeSlash(v) ==
  SubSeq(v, 1, Cardinality({i \in DOMAIN v : \A j \in 1..i : v[j] # "/"}))

\* C8: extract_part is absent when extract(text, "Part") is; otherwise it is
\* that value when it holds no slash and the trimmed text before the first
\* slash when it does, or absent when nothing is left: never the empty string.
C8_PartIsFirstSegment ==
  fn = "extract_first_part" =>
    LET v == extract_first_value(arg_text, PartLabel)
    IN  /\ ret # Some(<<>>)
        /\ v = None => ret = None
        /\ (v # None /\ "/" \notin Range(Val(v))) => ret = v
        /\ (v # None /\ "/" \in Range(Val(v))) =>
             LET p == RefTrim(RefBeforeSlash(Val(v)))
             IN  ret = IF p = <<>> THEN None ELSE Some(p)

\* A Part value with whitespace before its slash was cut and trimmed.
C8_Witness ==
  /\ fn = "extract_first_part"
  /\ extract_first_value(arg_text, PartLabel) = Some(<<"x", " ", "/">>)
  /\ ret = Some(<<"x">>)

====
